---- MODULE Spec2Model ----
(***************************************************************************)
(* Model of build_log.py: a per-project build log kept as one text file.   *)
(* `init` writes the skeleton, `add` appends one timestamped entry block,  *)
(* obtaining the text through an external editor (or standard input) when  *)
(* neither text nor bullets are given on the command line.                 *)
(*                                                                         *)
(* A Python str is a sequence of one-character strings; the character      *)
(* U+2014 (em dash) is written as the token EmDash.  An optional value     *)
(* (str | None, list | None) is a sequence of length 0 (None) or 1.        *)
(***************************************************************************)
EXTENDS Naturals, Sequences, FiniteSets

VARIABLES exists, content, hdr, blocks, run

vars == <<exists, content, hdr, blocks, run>>

\* ------------------------------------------------------------ Python values

None == <<>>

Some(x) == <<x>>

NL == "\n"

EmDash == "EMDASH"

\* str.isspace for one character
IsSpace(c) == c \in {" ", "\n", "\t"}

\* Truthiness of an optional str or list: None, "" and [] are falsy.
Truthy(o) == o # None /\ Len(o[1]) > 0

RECURSIVE lstrip(_)
lstrip(s) == IF s # <<>> /\ IsSpace(Head(s)) THEN lstrip(Tail(s)) ELSE s

RECURSIVE rstrip(_)
rstrip(s) ==
    IF s # <<>> /\ IsSpace(s[Len(s)]) THEN rstrip(SubSeq(s, 1, Len(s) - 1)) ELSE s

\* str.strip()
strip(s) == rstrip(lstrip(s))

\* Index of the first character of s that lies in S, 0 when there is none.
IndexOf(s, S) ==
    IF \E i \in 1..Len(s) : s[i] \in S
    THEN CHOOSE i \in 1..Len(s) : s[i] \in S /\ \A j \in 1..(i - 1) : s[j] \notin S
    ELSE 0

\* str.splitlines(): no empty last line after a final line break.
RECURSIVE splitlines(_)
splitlines(s) ==
    IF s = <<>> THEN <<>>
    ELSE LET i == IndexOf(s, {NL})
         IN  IF i = 0 THEN <<s>>
             ELSE <<SubSeq(s, 1, i - 1)>> \o splitlines(SubSeq(s, i + 1, Len(s)))

\* sep.join(lines)
RECURSIVE join(_, _)
join(sep, lines) ==
    IF lines = <<>> THEN <<>>
    ELSE IF Len(lines) = 1 THEN lines[1]
    ELSE lines[1] \o sep \o join(sep, Tail(lines))

\* str.split(): the words between runs of whitespace.
RECURSIVE split(_)
split(s) ==
    LET t == lstrip(s)
    IN  IF t = <<>> THEN <<>>
        ELSE LET i == IndexOf(t, {" ", "\n", "\t"})
                 n == IF i = 0 THEN Len(t) ELSE i - 1
             IN  <<SubSeq(t, 1, n)>> \o split(SubSeq(t, n + 1, Len(t)))

\* ln.startswith("#")
startswith_hash(ln) == ln # <<>> /\ Head(ln) = "#"

\* -------------------------------------------------------------- the template

\* Everything of TEMPLATE after the title line's project name.
TemplateTail == <<
    "\n", "\n", "#", "#", " ", "S", "n", "a", "p", "s", "h", "o", "t", "\n", "-", " ",
    "C", "a", "r", ":", " ", "E", "K", " ", "(", "R", "H", "D", ",", " ", "~", "1", "9",
    "9", "9", ")", "\n", "-", " ", "I", "n", "t", "e", "n", "d", "e", "d", " ", "u", "s",
    "e", ":", " ", "W", "e", "e", "k", "e", "n", "d", " ", "t", "o", "y", " ", "/", " ",
    "s", "p", "i", "r", "i", "t", "e", "d", " ", "/", " ", "w", "e", "t", " ", "d", "r",
    "i", "v", "e", "s", "\n", "-", " ", "K", "e", "y", " ", "g", "o", "a", "l", "s",
    ":", " ", "R", "e", "l", "i", "a", "b", "i", "l", "i", "t", "y", " ", "f", "i", "r",
    "s", "t", ",", " ", "t", "h", "e", "n", " ", "r", "e", "f", "i", "n", "e", "m", "e",
    "n", "t", "\n", "\n", "-", "-", "-", "\n", "\n", "#", " ", "U", "p", "d", "a", "t",
    "e", "s", " ", "L", "o", "g", "\n", "\n" >>

\* Faulty variant: the project name is not interpolated.
TEMPLATE_untitled(project_name) == <<"#", " ">> \o TemplateTail

\* TEMPLATE.format(project_name=project_name)
TEMPLATE(project_name) == <<"#", " ">> \o project_name \o TemplateTail

\* The comment line the scratch file starts with.
HINT == <<
    "#", " ", "W", "r", "i", "t", "e", " ", "y", "o", "u", "r", " ", "n", "o", "t", "e",
    " ", "b", "e", "l", "o", "w", ".", " ", "L", "i", "n", "e", "s", " ", "s", "t", "a",
    "r", "t", "i", "n", "g", " ", "w", "i", "t", "h", " ", "#", " ", "w", "i", "l", "l",
    " ", "b", "e", " ", "i", "g", "n", "o", "r", "e", "d", ".", "\n" >>

\* ------------------------------------------------------------ entry renderer

Digits == <<"0", "1", "2", "3", "4", "5", "6", "7", "8", "9">>

\* strftime("%Y-%m-%d %H:%M") of a clock that reads minute `clock` of one hour.
now_stamp(clock) ==
    <<"2", "0", "2", "6", "-", "1", "1", "-", "0", "2", " ", "1", "0", ":", "0">>
        \o <<Digits[clock + 1]>>

NonBlank(b) == strip(b) # <<>>

\* Faulty variant: blank bullets are rendered too.
RECURSIVE BulletLines_keep_blank(_)
BulletLines_keep_blank(bs) ==
    IF bs = <<>> THEN <<>>
    ELSE << <<"-", " ">> \o strip(Head(bs)) >> \o BulletLines_keep_blank(Tail(bs))

RECURSIVE BulletLines(_)
BulletLines(bs) ==
    IF bs = <<>> THEN <<>>
    ELSE (IF NonBlank(Head(bs)) THEN << <<"-", " ">> \o strip(Head(bs)) >> ELSE <<>>)
             \o BulletLines(Tail(bs))

format_entry(title, text, bullets, clock) ==
    LET header == <<"#", "#", " ">> \o now_stamp(clock) \o <<" ", EmDash, " ">> \o title
        lines  == <<header, <<>>>>
                    \o (IF Truthy(text) THEN <<strip(text[1]), <<>>>> ELSE <<>>)
                    \o (IF Truthy(bullets)
                        THEN BulletLines(bullets[1]) \o << <<>> >>
                        ELSE <<>>)
                    \o << <<"-", "-", "-">>, <<>> >>
    IN  join(<<NL>>, lines)

\* ------------------------------------------------------------- editor bridge

candidates == << <<"c", "o", "d", "e">>, <<"n", "o", "t", "e", "p", "a", "d">>,
                 <<"n", "a", "n", "o">>, <<"v", "i">>, <<"v", "i", "m">> >>

\* shutil.which(c): c is an executable of the search path.
which(w, c) == c \in w.path

\* The command to run (a list of words), or None.  A world w is the process's
\* environment: w.EDITOR the variable (optional str), w.path the executables
\* of the search path.
pick_editor(w) ==
    IF Truthy(w.EDITOR) THEN Some(split(w.EDITOR[1]))
    ELSE LET found == SelectSeq(candidates, LAMBDA c : which(w, c))
         IN  IF found # <<>> THEN Some(<<Head(found)>>) ELSE None

\* The text left after dropping the comment lines of the scratch file.
cleaned(raw) ==
    strip(join(<<NL>>, SelectSeq(splitlines(raw), LAMBDA ln : ~startswith_hash(ln))))

\* open_in_editor() in world w.  w.faults names the steps that raise in this
\* run ("hint": writing the comment, "stdin": reading standard input, "read":
\* reading the scratch file back, "unlink": deleting it); w.edited is what the
\* editor saves to the scratch file (None: it saves nothing), w.exit its exit
\* status, w.stdin what standard input holds.  subprocess.call raises when the
\* command's executable is not on the search path.
\* The result: raised (an exception leaves the function), text (the returned
\* str), created/left (a scratch file was created / still exists on exit),
\* route (what supplied the text), cmd (pick_editor's result), readback (the
\* scratch file was read back).
open_in_editor(w) ==
    LET editor_cmd == pick_editor(w)
        base == [raised |-> TRUE, text |-> <<>>, created |-> TRUE, left |-> TRUE,
                 route |-> "none", cmd |-> editor_cmd, readback |-> FALSE]
        gone == "unlink" \notin w.faults
    IN  IF "hint" \in w.faults THEN base
        ELSE IF Truthy(editor_cmd)
        THEN IF editor_cmd[1][1] \notin w.path
             THEN [base EXCEPT !.route = "editor", !.left = ~gone]
             ELSE IF "read" \in w.faults
             THEN [base EXCEPT !.route = "editor", !.left = ~gone]
             ELSE [base EXCEPT !.route = "editor", !.left = ~gone, !.raised = FALSE,
                               !.readback = TRUE,
                               !.text = cleaned(IF w.edited = None THEN HINT
                                                ELSE w.edited[1])]
        ELSE IF "stdin" \in w.faults \/ "read" \in w.faults
             THEN [base EXCEPT !.route = "stdin", !.left = ~gone]
             ELSE [base EXCEPT !.route = "stdin", !.left = ~gone, !.raised = FALSE,
                               !.readback = TRUE, !.text = cleaned(w.stdin)]

\* The result record of a run that never enters the bridge.
NoBridge == [raised |-> FALSE, text |-> <<>>, created |-> FALSE, left |-> FALSE,
             route |-> "none", cmd |-> None, readback |-> FALSE]

\* ----------------------------------------------------------------- log store

\* Faulty variant: the skeleton is written in append mode.
write_text_appends(old, data) == old \o data

\* Path.write_text: the file holds exactly the data written.
write_text(old, data) == data

\* Faulty variant: the entry is written in write mode, truncating the file.
append_truncates(old, data) == data

\* open("a") and write: the data goes after what the file holds.
append(old, data) == old \o data

\* Faulty variant: force is ignored.
init_refuses_forced(ex, force) == ex

\* init_log's refusal: the file exists and force is not set.
init_refuses(ex, force) == ex /\ ~force

\* Faulty variant: the existence test is dropped.
add_missing_unchecked(ex) == FALSE

\* add_entry's first test: there is no file to append to.
add_missing(ex) == ~ex

\* Faulty variant: only the text decides.
use_editor_text_only(text, bullets) == ~Truthy(text)

\* add_entry's second test: neither text nor bullets, so ask the editor.
use_editor(text, bullets) == ~Truthy(text) /\ ~Truthy(bullets)

\* A world in which nothing is configured, for runs that read none of it.
NoWorld == [EDITOR |-> None, path |-> {}, exit |-> 0, edited |-> None,
            stdin |-> <<>>, faults |-> {}]

\* What is recorded of a process run: its arguments (cmd, name, force, title,
\* text, bullets), what it read of its surroundings (clock, world, existed,
\* before: the log file's state when it started), and what it did (status: the
\* exit status; entered: the editor bridge was entered; br: the bridge's
\* result; wrote: "none", "write" or "append"; entry: the block appended).
NoRun == [cmd |-> "none", name |-> <<>>, force |-> FALSE, title |-> <<>>,
          text |-> None, bullets |-> None, clock |-> 0, world |-> NoWorld,
          existed |-> FALSE, before |-> <<>>, status |-> 0, entered |-> FALSE,
          br |-> NoBridge, wrote |-> "none", entry |-> <<>>]

\* main() for `init --name project_name --file F [--force]`
InitLog(project_name, force) ==
    LET r == [NoRun EXCEPT !.cmd = "init", !.name = project_name, !.force = force,
                           !.existed = exists, !.before = content]
    IN  IF init_refuses(exists, force)
        THEN /\ run' = r
             /\ UNCHANGED <<exists, content, hdr, blocks>>
        ELSE /\ exists' = TRUE
             /\ content' = write_text(content, TEMPLATE(project_name))
             /\ hdr' = project_name
             /\ blocks' = <<>>
             /\ run' = [r EXCEPT !.wrote = "write"]

\* main() for `add --file F --title title [--text text] [--bullets ...]`, run
\* when the clock reads `clock`, in world w.
AddEntry(title, text, bullets, clock, w) ==
    LET r  == [NoRun EXCEPT !.cmd = "add", !.title = title, !.text = text,
                            !.bullets = bullets, !.clock = clock, !.world = w,
                            !.existed = exists, !.before = content]
        ed == use_editor(text, bullets)
        br == IF ed THEN open_in_editor(w) ELSE NoBridge
        entry == format_entry(title, IF ed THEN Some(br.text) ELSE text, bullets, clock)
    IN  IF add_missing(exists)
        THEN /\ run' = [r EXCEPT !.status = 1]
             /\ UNCHANGED <<exists, content, hdr, blocks>>
        ELSE IF br.raised
        THEN /\ run' = [r EXCEPT !.status = 1, !.entered = ed, !.br = br]
             /\ UNCHANGED <<exists, content, hdr, blocks>>
        ELSE /\ content' = append(content, entry)
             /\ blocks' = Append(blocks, entry)
             /\ run' = [r EXCEPT !.entered = ed, !.br = br, !.wrote = "append",
                                 !.entry = entry]
             /\ exists' = TRUE
             /\ UNCHANGED hdr

\* ------------------------------------------------------------------- inputs

MaxEntries == 3

Names == { <<"E", "K">>, <<"K", "2", "4">>, <<"E", "\n", "K">> }

Titles == { <<"O", "i", "l">> }

Clocks == {0, 1}

Word_ed == <<"e", "d">>

Word_nano == <<"n", "a", "n", "o">>

Word_vi == <<"v", "i">>

Word_vim == <<"v", "i", "m">>

\* EDITOR: unset, empty, blank, a command with an argument, a command that is
\* not on the search path.
Editors == { None, Some(<<>>), Some(<<" ">>),
             Some(<<"e", "d", " ", "-", "w">>), Some(<<"n", "o", "p", "e">>) }

Paths == { {}, {Word_ed, Word_nano, Word_vim}, {Word_ed, Word_vi, Word_vim} }

\* What the editor leaves in the scratch file.
Edits == { None, Some(HINT \o <<" ", "n", " ", "\n">>),
           Some(<<"#", "x", "\n", "m", "\n", "#", "y", "\n">>) }

Stdins == { <<>>, <<"s", "\n", "#", "c", "\n">> }

FaultSets == { {}, {"hint"}, {"stdin"}, {"read"}, {"unlink"}, {"read", "unlink"} }

Worlds == [EDITOR : Editors, path : Paths, exit : {0, 1}, edited : Edits,
           stdin : Stdins, faults : FaultSets]

\* Two worlds for the log's life cycle: an editor that saves a note, and an
\* EDITOR that cannot be run.
FewWorlds ==
    { [NoWorld EXCEPT !.path = {Word_ed, Word_vi}, !.edited = Some(<<"m", "\n">>)],
      [NoWorld EXCEPT !.EDITOR = Some(<<"n", "o", "p", "e">>)] }

Texts == { None, Some(<<>>), Some(<<" ">>), Some(<<" ", "a", "\n">>),
           Some(<<"a", "\n", "b">>) }

BulletLists == { None, Some(<<>>), Some(<< <<" ">> >>),
                 Some(<< <<"b">>, <<" ">>, <<" ", "c", " ">> >>),
                 Some(<< <<>>, <<"\t">> >>) }

\* The (text, bullets) of an add in the log's life cycle: neither, text only,
\* bullets only.
FewArgs == { <<None, None>>, <<Some(<<" ", "a", " ">>), None>>,
             <<None, Some(<< <<"b">>, <<" ">> >>)>> }

\* ----------------------------------------------- the log's life cycle (Spec)

Init ==
    /\ exists = FALSE
    /\ content = <<>>
    /\ hdr = <<>>
    /\ blocks = <<>>
    /\ run = NoRun

Next ==
    \/ \E n \in Names, f \in BOOLEAN : InitLog(n, f)
    \/ /\ Len(blocks) < MaxEntries
       /\ \E t \in Titles, a \in FewArgs, c \in Clocks, w \in FewWorlds :
             AddEntry(t, a[1], a[2], c, w)

Spec == Init /\ [][Next]_vars

\* -------------------------------------- one run over all its inputs (SpecRun)

\* A log file as a run may find it: none, a fresh one, one with an entry.
InitRun ==
    /\ run = NoRun
    /\ hdr = <<"E", "K">>
    /\ \/ exists = FALSE /\ content = <<>> /\ blocks = <<>>
       \/ exists = TRUE /\ content = TEMPLATE(hdr) /\ blocks = <<>>
       \/ /\ exists = TRUE
          /\ blocks = << format_entry(<<"O", "i", "l">>, Some(<<"a">>), None, 0) >>
          /\ content = TEMPLATE(hdr) \o blocks[1]

NextRun ==
    /\ run.cmd = "none"
    /\ \/ \E n \in Names, f \in BOOLEAN : InitLog(n, f)
       \/ \E t \in Titles, x \in Texts, b \in BulletLists, c \in Clocks,
             w \in Worlds : AddEntry(t, x, b, c, w)

SpecRun == InitRun /\ [][NextRun]_vars

\* --------------------------------------------------------- reading the file

IsPrefix(p, s) == Len(p) <= Len(s) /\ SubSeq(s, 1, Len(p)) = p

\* The blocks of a list, one after the other.
Concat(bs) == join(<<>>, bs)

Lines(s) == splitlines(s)

NonEmptyLines(s) == SelectSeq(splitlines(s), LAMBDA ln : ln # <<>>)

HasLine(s, ln) == \E i \in 1..Len(Lines(s)) : Lines(s)[i] = ln

UpdatesLine == <<"#", " ", "U", "p", "d", "a", "t", "e", "s", " ", "L", "o", "g">>

UpdatesLine2 == <<"#">> \o UpdatesLine

\* How many lines of s are the "# Updates Log" heading of the header.
HeaderCount(s) == Len(SelectSeq(Lines(s), LAMBDA ln : ln = UpdatesLine))

\* Nothing but blank lines follows the one "# Updates Log" line.
UpdatesEmpty(s) ==
    \E i \in 1..Len(Lines(s)) :
        /\ Lines(s)[i] = UpdatesLine
        /\ \A j \in (i + 1)..Len(Lines(s)) : Lines(s)[j] = <<>>

AddOk == run.cmd = "add" /\ run.status = 0

\* The text the last add rendered: the one given, or the bridge's.
GivenOrEdited == IF run.entered THEN Some(run.br.text) ELSE run.text

\* ------------------------------------------------------------------- claims

\* C1: append is strictly additive and order-preserving.  After every
\* successful add the file is its previous content followed by the block
\* rendered from that call, and the file is always the skeleton followed by
\* the blocks of the successful adds in call order, none dropped, reordered
\* or merged.
C1_AppendAdditive ==
    /\ exists => content = TEMPLATE(hdr) \o Concat(blocks)
    /\ AddOk =>
         /\ IsPrefix(run.before, content)
         /\ Len(content) > Len(run.before)
         /\ content = run.before \o run.entry
         /\ run.entry = format_entry(run.title, GivenOrEdited, run.bullets, run.clock)
         /\ blocks # <<>> /\ blocks[Len(blocks)] = run.entry

C1_Witness ==
    /\ AddOk
    /\ Len(blocks) >= 3
    /\ blocks[1] # blocks[2] /\ blocks[2] = blocks[3]

\* C2: init on an existing file.  Without force the contents are unchanged and
\* the run exits normally; with force the contents are exactly a fresh
\* skeleton for the given name, no prior entry kept.
C2_InitExisting ==
    (run.cmd = "init" /\ run.existed) =>
        /\ run.status = 0
        /\ exists
        /\ ~run.force => content = run.before /\ run.wrote = "none"
        /\ run.force => /\ content = <<"#", " ">> \o run.name \o TemplateTail
                        /\ blocks = <<>>

C2_Witness ==
    /\ run.cmd = "init" /\ run.existed /\ ~run.force
    /\ Len(blocks) >= 2
    /\ run.name # hdr

\* C3: add on a path with no file exits with status 1 and writes nothing: no
\* log file, no scratch file, the editor bridge never entered, whatever the
\* title, text and bullets.
C3_AddMissing ==
    (run.cmd = "add" /\ ~run.existed) =>
        /\ run.status = 1
        /\ ~exists /\ content = <<>>
        /\ run.wrote = "none"
        /\ ~run.entered /\ ~run.br.created /\ ~run.br.left

C3_Witness ==
    /\ run.cmd = "add" /\ ~run.existed
    /\ run.text = None /\ run.bullets = None
    /\ run.world.faults = {}
    /\ run.world.path # {}

\* C4 as stated: an existing file's header is written once, at creation, and
\* its contents change afterwards only by appending.
C4_Original ==
    (run.cmd # "none" /\ run.existed) =>
        /\ IsPrefix(run.before, content)
        /\ run.wrote # "write"

\* C4 amended: an existing file always holds exactly one header, the one of the
\* last init that wrote it; a run changes an existing file only by appending
\* one entry block with no header in it (add) or by replacing the whole file
\* with a fresh skeleton (init with force); init without force changes nothing.
C4_HeaderOnce ==
    /\ exists => HeaderCount(content) = 1 /\ IsPrefix(TEMPLATE(hdr), content)
    /\ (run.cmd # "none" /\ run.existed) =>
         \/ content = run.before /\ run.wrote = "none"
         \/ /\ run.cmd = "add" /\ run.wrote = "append"
            /\ content = run.before \o run.entry
            /\ HeaderCount(run.entry) = 0
         \/ /\ run.cmd = "init" /\ run.force /\ run.wrote = "write"
            /\ content = TEMPLATE(run.name)

C4_Witness ==
    /\ run.cmd = "init" /\ run.force /\ run.existed
    /\ Len(run.before) > Len(content)
    /\ run.name # <<"E", "K">>

\* C5 as stated: after init on a path with no file the file is the skeleton
\* with the name in the title, with a line "# N" and a line "## Updates Log",
\* the Updates Log section present and empty.
C5_Original ==
    (run.cmd = "init" /\ ~run.existed) =>
        /\ content = TEMPLATE(run.name)
        /\ HasLine(content, <<"#", " ">> \o run.name)
        /\ HasLine(content, UpdatesLine2)
        /\ UpdatesEmpty(content)

\* C5 amended: the heading of the empty section is the line "# Updates Log"
\* (one #), and the title is the line "# N" when N has no line break.
C5_FreshSkeleton ==
    (run.cmd = "init" /\ ~run.existed) =>
        /\ exists /\ run.status = 0
        /\ content = <<"#", " ">> \o run.name \o TemplateTail
        /\ IndexOf(run.name, {NL}) = 0 => Lines(content)[1] = <<"#", " ">> \o run.name
        /\ HasLine(content, UpdatesLine)
        /\ ~HasLine(content, UpdatesLine2)
        /\ UpdatesEmpty(content)

C5_Witness ==
    /\ run.cmd = "init" /\ ~run.existed /\ ~run.force
    /\ run.name = <<"K", "2", "4">>
    /\ content # <<>>

\* The block the claim C6 describes, as its non-empty lines: the heading, the
\* trimmed text, one "- bullet" line per bullet with a non-space character,
\* the separator.
DescribedLines(title, text, bullets, clock) ==
    LET nb == SelectSeq(bullets, LAMBDA b : \E i \in 1..Len(b) : ~IsSpace(b[i]))
    IN  << <<"#", "#", " ">> \o now_stamp(clock) \o <<" ", EmDash, " ">> \o title >>
            \o NonEmptyLines(strip(text))
            \o [i \in 1..Len(nb) |-> <<"-", " ">> \o strip(nb[i])]
            \o << <<"-", "-", "-">> >>

\* C6 as stated: whenever add is given both text and bullets, the appended
\* block is the heading, the trimmed text, the bullet lines, the separator.
C6_Original ==
    (AddOk /\ run.text # None /\ run.bullets # None) =>
        NonEmptyLines(run.entry)
            = DescribedLines(run.title, run.text[1], run.bullets[1], run.clock)

\* C6 amended: the same, when the text or the bullets list is non-empty (with
\* an empty text and an empty list the block holds the editor's text).
C6_EntryLayout ==
    (AddOk /\ run.text # None /\ run.bullets # None
        /\ (run.text[1] # <<>> \/ run.bullets[1] # <<>>)) =>
        /\ ~run.entered
        /\ NonEmptyLines(run.entry)
             = DescribedLines(run.title, run.text[1], run.bullets[1], run.clock)
        /\ content = run.before \o run.entry

C6_Witness ==
    /\ AddOk
    /\ run.text = Some(<<" ">>)
    /\ run.bullets = Some(<< <<"b">>, <<" ">>, <<" ", "c", " ">> >>)
    /\ Len(NonEmptyLines(run.entry)) = 4

\* C7: on an existing log the editor bridge is entered exactly when the text
\* is absent or empty and the bullets are absent or an empty list.
C7_EditorIff ==
    (run.cmd = "add" /\ run.existed) =>
        (run.entered <=> /\ run.text \in {None, Some(<<>>)}
                         /\ run.bullets \in {None, Some(<<>>)})

C7_Witness ==
    /\ run.cmd = "add" /\ run.existed
    /\ run.text = None /\ run.bullets = Some(<<>>)
    /\ run.entered /\ run.br.created

\* C8 as stated: a scratch file the bridge created is gone when the bridge
\* returns or raises, unless its deletion itself failed; a failed deletion
\* changes neither the outcome nor the text.
C8_Claim ==
    (run.entered /\ run.br.created) =>
        /\ run.br.left => "unlink" \in run.world.faults
        /\ run.world.faults = {"unlink"} =>
             run.br = [open_in_editor([run.world EXCEPT !.faults = {}])
                          EXCEPT !.left = TRUE]

\* C9 as stated: with an editor command chosen and no other step failing, the
\* bridge reads the scratch file back and add appends an entry, whether the
\* editor exits zero, non-zero or cannot be run.
C9_Claim ==
    (run.entered /\ run.br.route = "editor" /\ run.world.faults = {}) =>
        /\ run.br.readback /\ ~run.br.raised
        /\ AddOk /\ run.wrote = "append"
        /\ content = run.before \o run.entry

\* C10 as stated: the configured command is used if there is one; otherwise the
\* first listed editor on the search path; standard input only when neither
\* gives a command.
C10_Claim ==
    (run.entered /\ run.br.route # "none") =>
        LET words == IF run.world.EDITOR = None THEN <<>>
                     ELSE split(run.world.EDITOR[1])
            avail == SelectSeq(candidates, LAMBDA c : c \in run.world.path)
        IN  /\ words # <<>> => run.br.route = "editor" /\ run.br.cmd = Some(words)
            /\ (words = <<>> /\ avail # <<>>) =>
                 run.br.route = "editor" /\ run.br.cmd = Some(<<avail[1]>>)
            /\ run.br.route = "stdin" => words = <<>> /\ avail = <<>>

====
